---- MODULE Spec2Model ----
(***************************************************************************)
(* Model of src/main.py: the weather chat bot.                             *)
(*                                                                         *)
(* chat_with_bot is one coroutine; its position is pc.  The steps are cut  *)
(* at the await points (a request is sent, its answer or its failure is    *)
(* received) and between a print and the append that follows it.           *)
(* Text typed at the prompt is a sequence of one-character strings, so     *)
(* that strip() and lower() are computed.  Temperatures are fixed point:   *)
(* the provider's Kelvin value in hundredths, the result in tenths.        *)
(***************************************************************************)
EXTENDS Integers, Sequences, FiniteSets, TLC

VARIABLES
    pc,              \* position of chat_with_bot
    messages,        \* the transcript (main.py:77)
    line,            \* the raw line input() returned last
    user_input,      \* main.py:88
    request,         \* the last outbound request (<<>> before the first)
    inflight,        \* network calls sent and not yet answered, per kind
    assistant_message, \* main.py:118, <<>> before the first response
    data,            \* main.py:48, the provider's JSON, <<>> before the first
    weather_data,    \* main.py:124, <<>> before the first result
    second_response, \* main.py:134, <<>> before the first
    console,         \* what was printed, in order
    error,           \* the exception that ended the session, "none" otherwise
    inputs,          \* every user_input that was not quit, in order
    lookups,         \* every result fetch_weather_from_api returned, in order
    turn,            \* iterations of the loop that appended a user message
    weatherTurns,    \* of these, the ones that took the function-call branch
    turnStart,       \* Len(messages) when the current turn read its line
    modelCalls,      \* model calls sent in the current turn
    weatherCalls     \* weather calls sent in the current turn

vars == << pc, messages, line, user_input, request, inflight,
           assistant_message, data, weather_data, second_response,
           console, error, inputs, lookups, turn, weatherTurns, turnStart,
           modelCalls, weatherCalls >>

\* ------------------------------------------------------------------ bounds

\* Lines read at the prompt that are not quit, at most.
MaxTurns == 2

\* ------------------------------------------------------------ text helpers

Whitespace == {" ", "\t"}

LowerChar(c) ==
    CASE c = "Q" -> "q"
      [] c = "U" -> "u"
      [] c = "I" -> "i"
      [] c = "T" -> "t"
      [] c = "H" -> "h"
      [] OTHER -> c

\* Mutant of Lower: the letters are left as typed.
LowerIdentity(s) == s

\* str.lower()
Lower(s) == [i \in 1..Len(s) |-> LowerChar(s[i])]

RECURSIVE LStrip(_)
LStrip(s) ==
    IF s # <<>> /\ Head(s) \in Whitespace THEN LStrip(Tail(s)) ELSE s

RECURSIVE RStrip(_)
RStrip(s) ==
    IF s # <<>> /\ s[Len(s)] \in Whitespace
    THEN RStrip(SubSeq(s, 1, Len(s) - 1))
    ELSE s

\* str.strip()
Strip(s) == RStrip(LStrip(s))

QuitToken == <<"q", "u", "i", "t">>

\* Mutant of IsQuit: an empty line ends the session too.
IsQuitOrEmpty(s) == s = <<>> \/ Lower(s) = QuitToken

\* main.py:90
IsQuit(s) == Lower(s) = QuitToken

\* The lines the user may type.
Lines ==
    { <<"q", "u", "i", "t">>,
      <<"Q", "U", "I", "T">>,
      <<"Q", "u", "i", "t">>,
      <<" ", "q", "u", "i", "t", " ">>,
      <<"q", "U", "i", "T", "\t">>,
      <<>>,
      <<" ">>,
      <<"H", "i", " ">> }

\* ------------------------------------------------------------- transcript

SystemPrompt == <<"You are a helpful weather assistant.">>

SystemMessage == [role |-> "system", content |-> SystemPrompt]

UserMessage(text) == [role |-> "user", content |-> text]

AssistantMessage(text) == [role |-> "assistant", content |-> text]

\* Mutant of FunctionMessage: the message is named as the model asked.
FunctionMessageNamedAsRequested(text) ==
    [role |-> "function",
     name |-> assistant_message[1].function_call[1].name,
     content |-> text]

FunctionMessage(text) ==
    [role |-> "function", name |-> "fetch_weather_from_api", content |-> text]

Greeting == <<"Chat Bot: Hello!">>

Goodbye == <<"Chat Bot: Goodbye!">>

BotLine(text) == <<"Chat Bot: ">> \o text

\* ------------------------------------------------- the model's responses

\* main.py:101-114
FunctionDecl ==
    [ name |-> "fetch_weather_from_api",
      properties |-> {<<"location", "string">>},
      required |-> {"location"} ]

\* Mutant of Call1Request: only the last message is sent.
Call1RequestLastOnly(msgs) ==
    [ kind |-> "model", messages |-> <<msgs[Len(msgs)]>>,
      functions |-> {FunctionDecl}, function_call |-> "auto" ]

\* The request of main.py:98-116.
Call1Request(msgs) ==
    [ kind |-> "model", messages |-> msgs,
      functions |-> {FunctionDecl}, function_call |-> "auto" ]

\* Mutant of Call2Request: the second request declares the function too.
Call2RequestWithFunctions(msgs) ==
    [ kind |-> "model", messages |-> msgs,
      functions |-> {FunctionDecl}, function_call |-> "auto" ]

\* The request of main.py:134-137.
Call2Request(msgs) ==
    [ kind |-> "model", messages |-> msgs,
      functions |-> {}, function_call |-> "unset" ]

\* The GET of main.py:41-47.
WeatherRequest(location) == [kind |-> "weather", location |-> location]

\* Argument strings a function invocation request may carry.
ArgsBerlin == "{\"location\": \"Berlin\"}"
ArgsParis == "{\"location\": \"Paris\"}"
ArgsExtraKey == "{\"location\": \"Berlin\", \"unit\": \"celsius\"}"
ArgsOtherKey == "{\"city\": \"Berlin\"}"
ArgsEmpty == "{}"
ArgsJsonTrue == "{\"location\": \"Berlin\", \"strict\": true}"
ArgsCut == "{\"location\": "

FunctionCall(name, arguments) == [name |-> name, arguments |-> arguments]

\* A direct answer: text, no function_call.
TextResponse(text) == [content |-> <<text>>, function_call |-> <<>>]

\* A function invocation request; content is None (<<>>) or a text.
CallResponse(content, name, arguments) ==
    [content |-> content, function_call |-> <<FunctionCall(name, arguments)>>]

DirectTexts == {"Hello!", "Ask me about the weather."}

WeatherTexts == {"It is 27.0 C in Berlin."}

\* What the chat completion endpoint may answer to a request: a function
\* invocation request only when the request declares functions.
ModelResponses(req) ==
    IF req.functions = {}
    THEN {TextResponse(t) : t \in WeatherTexts}
    ELSE {TextResponse(t) : t \in DirectTexts}
         \cup { CallResponse(<<>>, "fetch_weather_from_api", ArgsBerlin),
                CallResponse(<<"Let me check.">>, "fetch_weather_from_api",
                             ArgsParis),
                CallResponse(<<>>, "get_forecast", ArgsBerlin),
                CallResponse(<<>>, "fetch_weather_from_api", ArgsExtraKey),
                CallResponse(<<>>, "fetch_weather_from_api", ArgsOtherKey),
                CallResponse(<<>>, "fetch_weather_from_api", ArgsEmpty),
                CallResponse(<<>>, "fetch_weather_from_api", ArgsJsonTrue),
                CallResponse(<<>>, "fetch_weather_from_api", ArgsCut) }

\* ------------------------------------------------------ argument handling

Returned(v) == [raises |-> "none", value |-> <<v>>]

Raised(e) == [raises |-> e, value |-> <<>>]

\* eval(arguments), main.py:123: the dict as a set of <<key, value>> pairs,
\* or the exception eval raises.
Eval(arguments) ==
    CASE arguments = ArgsBerlin -> Returned({<<"location", "Berlin">>})
      [] arguments = ArgsParis -> Returned({<<"location", "Paris">>})
      [] arguments = ArgsExtraKey ->
            Returned({<<"location", "Berlin">>, <<"unit", "celsius">>})
      [] arguments = ArgsOtherKey -> Returned({<<"city", "Berlin">>})
      [] arguments = ArgsEmpty -> Returned({})
      [] arguments = ArgsJsonTrue -> Raised("NameError")
      [] OTHER -> Raised("SyntaxError")

Keys(kwargs) == {kv[1] : kv \in kwargs}

\* fetch_weather_from_api(**function_args), main.py:124 and :25: the keyword
\* arguments are bound to the one parameter, location.
BindKwargs(kwargs) ==
    IF Keys(kwargs) = {"location"}
    THEN Returned((CHOOSE kv \in kwargs : kv[1] = "location")[2])
    ELSE Raised("TypeError")

\* ---------------------------------------------------- the weather provider

KelvinOffset == 27315

\* main.temp values the provider may send, in hundredths of a Kelvin.
KelvinVals == {30015, 27315, 29319, 29321, 29320, 27290}

Descriptions == {"clear sky"}

\* The JSON bodies the provider may send.
WeatherBodies ==
    { [main |-> [temp |-> k], weather |-> <<[description |-> d]>>] :
          k \in KelvinVals, d \in Descriptions }
    \cup { [main |-> [temp |-> 30015]],
           [weather |-> <<[description |-> "clear sky"]>>],
           [main |-> [humidity |-> 40],
            weather |-> <<[description |-> "clear sky"]>>],
           [main |-> [temp |-> 30015], weather |-> <<>>],
           [main |-> [temp |-> 30015], weather |-> <<[id |-> 800]>>],
           [cod |-> "404", message |-> "city not found"] }

\* Mutant of Round1: the second decimal is cut off instead of rounded.
Round1Truncate(c) ==
    IF c >= 0 THEN {c \div 10} ELSE {-((-c) \div 10)}

\* round(temp, 1), main.py:55, from hundredths to tenths.  The float
\* temp_k - 273.15 is off the decimal value by far less than a hundredth,
\* so a value that is not halfway goes to the nearest tenth; a halfway value
\* goes where the float's error puts it, up or down.
Round1(c) ==
    LET lo == c \div 10
        r == c % 10
    IN  IF r < 5 THEN {lo}
        ELSE IF r > 5 THEN {lo + 1}
        ELSE {lo, lo + 1}

\* Mutant of ParseWeather: a missing weather list is read with a default.
ParseWeatherLenient(body) ==
    IF "main" \notin DOMAIN body THEN {Raised("KeyError")}
    ELSE IF "temp" \notin DOMAIN body.main THEN {Raised("KeyError")}
    ELSE IF "weather" \notin DOMAIN body
    THEN { Returned([conditions |-> "", temperature |-> t]) :
               t \in Round1(body.main.temp - KelvinOffset) }
    ELSE IF body.weather = <<>> THEN {Raised("IndexError")}
    ELSE IF "description" \notin DOMAIN body.weather[1]
    THEN {Raised("KeyError")}
    ELSE { Returned([conditions |-> body.weather[1].description,
                     temperature |-> t]) :
               t \in Round1(body.main.temp - KelvinOffset) }

\* main.py:50-55: what fetch_weather_from_api makes of the provider's JSON.
ParseWeather(body) ==
    IF "main" \notin DOMAIN body THEN {Raised("KeyError")}
    ELSE IF "temp" \notin DOMAIN body.main THEN {Raised("KeyError")}
    ELSE IF "weather" \notin DOMAIN body THEN {Raised("KeyError")}
    ELSE IF body.weather = <<>> THEN {Raised("IndexError")}
    ELSE IF "description" \notin DOMAIN body.weather[1]
    THEN {Raised("KeyError")}
    ELSE { Returned([conditions |-> body.weather[1].description,
                     temperature |-> t]) :
               t \in Round1(body.main.temp - KelvinOffset) }

Digits == <<"0", "1", "2", "3", "4", "5", "6", "7", "8", "9">>

RECURSIVE NatTokens(_)
NatTokens(n) ==
    IF n < 10 THEN <<Digits[n + 1]>>
    ELSE NatTokens(n \div 10) \o <<Digits[(n % 10) + 1]>>

\* repr of a float with one decimal, from tenths (the sign of a zero is not
\* kept).
FloatTokens(t) ==
    LET a == IF t < 0 THEN -t ELSE t
    IN  (IF t < 0 THEN <<"-">> ELSE <<>>)
        \o NatTokens(a \div 10) \o <<".">> \o NatTokens(a % 10)

\* str(weather_data), main.py:130.
Str(wd) ==
    <<"{'conditions': '", wd.conditions, "', 'temperature': ">>
    \o FloatTokens(wd.temperature) \o <<"}">>

\* ------------------------------------------------------------------ state

\* main.py:74-84: the state when the loop is entered.
Init ==
    /\ pc = "AwaitingInput"
    /\ messages = <<SystemMessage>>
    /\ line = <<>>
    /\ user_input = <<>>
    /\ request = <<>>
    /\ inflight = [model |-> 0, weather |-> 0]
    /\ assistant_message = <<>>
    /\ data = <<>>
    /\ weather_data = <<>>
    /\ second_response = <<>>
    /\ console = <<Greeting>>
    /\ error = "none"
    /\ inputs = <<>>
    /\ lookups = <<>>
    /\ turn = 0
    /\ weatherTurns = 0
    /\ turnStart = 1
    /\ modelCalls = 0
    /\ weatherCalls = 0

\* A request of this kind goes out.
Sent(kind) == [inflight EXCEPT ![kind] = @ + 1]

\* Mutant of Awaited: the request is left running, not awaited.
NotAwaited(kind) == inflight

\* The await of a request of this kind is over: answered or failed.
Awaited(kind) == [inflight EXCEPT ![kind] = @ - 1]

\* Mutant of Raise: the exception is caught and the loop goes on.
RaiseCaught(e) ==
    /\ pc' = "AwaitingInput"
    /\ error' = e

\* An exception nothing catches: it leaves chat_with_bot and asyncio.run
\* (main.py:147), and the process ends.
Raise(e) ==
    /\ pc' = "Crashed"
    /\ error' = e

\* ---------------------------------------------------------------- actions

\* main.py:88-95: a line is read; quit ends the session, any other line is
\* appended as a user message.
ReadInput(l) ==
    /\ pc = "AwaitingInput"
    /\ line' = l
    /\ user_input' = Strip(l)
    /\ IF IsQuit(Strip(l))
       THEN /\ console' = Append(console, Goodbye)
            /\ pc' = "Exited"
            /\ UNCHANGED << messages, inputs, turn, turnStart, modelCalls,
                            weatherCalls >>
       ELSE /\ turn < MaxTurns
            /\ messages' = Append(messages, UserMessage(Strip(l)))
            /\ inputs' = Append(inputs, Strip(l))
            /\ turn' = turn + 1
            /\ turnStart' = Len(messages)
            /\ modelCalls' = 0
            /\ weatherCalls' = 0
            /\ pc' = "ModelCall1"
            /\ UNCHANGED console
    /\ UNCHANGED << request, inflight, assistant_message, data, weather_data,
                    second_response, error, lookups, weatherTurns >>

\* main.py:98-116: the first request of the turn is sent.
SendModelCall1 ==
    /\ pc = "ModelCall1"
    /\ request' = <<Call1Request(messages)>>
    /\ inflight' = Sent("model")
    /\ modelCalls' = modelCalls + 1
    /\ pc' = "AwaitModel1"
    /\ UNCHANGED << messages, line, user_input, assistant_message, data,
                    weather_data, second_response, console, error, inputs,
                    lookups, turn, weatherTurns, turnStart, weatherCalls >>

\* main.py:98, 118: the first response arrives.
ReceiveModel1(resp) ==
    /\ pc = "AwaitModel1"
    /\ resp \in ModelResponses(request[1])
    /\ inflight' = Awaited("model")
    /\ assistant_message' = <<resp>>
    /\ pc' = "Branch"
    /\ UNCHANGED << messages, line, user_input, request, data, weather_data,
                    second_response, console, error, inputs, lookups, turn,
                    weatherTurns, turnStart, modelCalls, weatherCalls >>

\* main.py:98: the first call fails.
FailModel1 ==
    /\ pc = "AwaitModel1"
    /\ inflight' = Awaited("model")
    /\ Raise("APIError")
    /\ UNCHANGED << messages, line, user_input, request, assistant_message,
                    data, weather_data, second_response, console, inputs,
                    lookups, turn, weatherTurns, turnStart, modelCalls,
                    weatherCalls >>

\* main.py:121, 141: no function_call, the direct branch.
DirectAnswer ==
    /\ pc = "Branch"
    /\ assistant_message[1].function_call = <<>>
    /\ pc' = "PrintDirect"
    /\ UNCHANGED << messages, line, user_input, request, inflight,
                    assistant_message, data, weather_data, second_response,
                    console, error, inputs, lookups, turn, weatherTurns,
                    turnStart, modelCalls, weatherCalls >>

\* main.py:121-124 and 41-47: a function_call; its arguments are evaluated
\* and bound, and the weather request is sent.
WeatherDispatch ==
    /\ pc = "Branch"
    /\ assistant_message[1].function_call # <<>>
    /\ weatherTurns' = weatherTurns + 1
    /\ LET function_args == Eval(assistant_message[1].function_call[1].arguments)
       IN  IF function_args.raises # "none"
           THEN /\ Raise(function_args.raises)
                /\ UNCHANGED << request, inflight, weatherCalls >>
           ELSE LET bound == BindKwargs(function_args.value[1])
                IN  IF bound.raises # "none"
                    THEN /\ Raise(bound.raises)
                         /\ UNCHANGED << request, inflight, weatherCalls >>
                    ELSE /\ request' = <<WeatherRequest(bound.value[1])>>
                         /\ inflight' = Sent("weather")
                         /\ weatherCalls' = weatherCalls + 1
                         /\ pc' = "AwaitWeather"
                         /\ UNCHANGED error
    /\ UNCHANGED << messages, line, user_input, assistant_message, data,
                    weather_data, second_response, console, inputs, lookups,
                    turn, turnStart, modelCalls >>

\* main.py:48-55 and 124-131: the provider's JSON arrives; the result is
\* computed and appended as the function message.
ReceiveWeather(body) ==
    /\ pc = "AwaitWeather"
    /\ inflight' = Awaited("weather")
    /\ data' = <<body>>
    /\ \E out \in ParseWeather(body) :
          IF out.raises # "none"
          THEN /\ Raise(out.raises)
               /\ UNCHANGED << messages, weather_data, lookups >>
          ELSE /\ weather_data' = out.value
               /\ lookups' = Append(lookups, out.value[1])
               /\ messages' = Append(messages, FunctionMessage(Str(out.value[1])))
               /\ pc' = "ModelCall2"
               /\ UNCHANGED error
    /\ UNCHANGED << line, user_input, request, assistant_message,
                    second_response, console, inputs, turn, weatherTurns,
                    turnStart, modelCalls, weatherCalls >>

\* main.py:46-48: the GET fails.
FailWeather ==
    /\ pc = "AwaitWeather"
    /\ inflight' = Awaited("weather")
    /\ Raise("ClientError")
    /\ UNCHANGED << messages, line, user_input, request, assistant_message,
                    data, weather_data, second_response, console, inputs,
                    lookups, turn, weatherTurns, turnStart, modelCalls,
                    weatherCalls >>

\* main.py:134-137: the second request of the turn is sent.
SendModelCall2 ==
    /\ pc = "ModelCall2"
    /\ request' = <<Call2Request(messages)>>
    /\ inflight' = Sent("model")
    /\ modelCalls' = modelCalls + 1
    /\ pc' = "AwaitModel2"
    /\ UNCHANGED << messages, line, user_input, assistant_message, data,
                    weather_data, second_response, console, error, inputs,
                    lookups, turn, weatherTurns, turnStart, weatherCalls >>

\* main.py:134: the second response arrives.
ReceiveModel2(resp) ==
    /\ pc = "AwaitModel2"
    /\ resp \in ModelResponses(request[1])
    /\ inflight' = Awaited("model")
    /\ second_response' = <<resp>>
    /\ pc' = "PrintWeather"
    /\ UNCHANGED << messages, line, user_input, request, assistant_message,
                    data, weather_data, console, error, inputs, lookups, turn,
                    weatherTurns, turnStart, modelCalls, weatherCalls >>

\* main.py:134: the second call fails.
FailModel2 ==
    /\ pc = "AwaitModel2"
    /\ inflight' = Awaited("model")
    /\ Raise("APIError")
    /\ UNCHANGED << messages, line, user_input, request, assistant_message,
                    data, weather_data, second_response, console, inputs,
                    lookups, turn, weatherTurns, turnStart, modelCalls,
                    weatherCalls >>

\* main.py:139
PrintWeather ==
    /\ pc = "PrintWeather"
    /\ console' = Append(console, BotLine(second_response[1].content))
    /\ pc' = "AppendWeather"
    /\ UNCHANGED << messages, line, user_input, request, inflight,
                    assistant_message, data, weather_data, second_response,
                    error, inputs, lookups, turn, weatherTurns, turnStart,
                    modelCalls, weatherCalls >>

\* Mutant of AppendWeather: the answer is printed and not stored.
AppendWeatherSkipped ==
    /\ pc = "AppendWeather"
    /\ pc' = "AwaitingInput"
    /\ UNCHANGED << messages, line, user_input, request, inflight,
                    assistant_message, data, weather_data, second_response,
                    console, error, inputs, lookups, turn, weatherTurns,
                    turnStart, modelCalls, weatherCalls >>

\* Mutant of AppendWeather: the loop is left after the weather answer.
AppendWeatherExits ==
    /\ pc = "AppendWeather"
    /\ messages' = Append(messages, [role |-> "assistant",
                                     content |-> second_response[1].content])
    /\ pc' = "Exited"
    /\ UNCHANGED << line, user_input, request, inflight, assistant_message,
                    data, weather_data, second_response, console, error,
                    inputs, lookups, turn, weatherTurns, turnStart,
                    modelCalls, weatherCalls >>

\* Mutant of AppendWeather: the first response's text is stored.
AppendWeatherFirstText ==
    /\ pc = "AppendWeather"
    /\ messages' = Append(messages, [role |-> "assistant",
                                     content |-> assistant_message[1].content])
    /\ pc' = "AwaitingInput"
    /\ UNCHANGED << line, user_input, request, inflight, assistant_message,
                    data, weather_data, second_response, console, error,
                    inputs, lookups, turn, weatherTurns, turnStart,
                    modelCalls, weatherCalls >>

\* main.py:140
AppendWeather ==
    /\ pc = "AppendWeather"
    /\ messages' = Append(messages, AssistantMessage(second_response[1].content))
    /\ pc' = "AwaitingInput"
    /\ UNCHANGED << line, user_input, request, inflight, assistant_message,
                    data, weather_data, second_response, console, error,
                    inputs, lookups, turn, weatherTurns, turnStart,
                    modelCalls, weatherCalls >>

\* Mutant of PrintDirect: the direct answer is stored and never printed.
PrintDirectSilent ==
    /\ pc = "PrintDirect"
    /\ pc' = "AppendDirect"
    /\ UNCHANGED << messages, line, user_input, request, inflight,
                    assistant_message, data, weather_data, second_response,
                    console, error, inputs, lookups, turn, weatherTurns,
                    turnStart, modelCalls, weatherCalls >>

\* main.py:143
PrintDirect ==
    /\ pc = "PrintDirect"
    /\ console' = Append(console, BotLine(assistant_message[1].content))
    /\ pc' = "AppendDirect"
    /\ UNCHANGED << messages, line, user_input, request, inflight,
                    assistant_message, data, weather_data, second_response,
                    error, inputs, lookups, turn, weatherTurns, turnStart,
                    modelCalls, weatherCalls >>

\* Mutant of AppendDirect: the answer is printed and not stored.
AppendDirectSkipped ==
    /\ pc = "AppendDirect"
    /\ pc' = "AwaitingInput"
    /\ UNCHANGED << messages, line, user_input, request, inflight,
                    assistant_message, data, weather_data, second_response,
                    console, error, inputs, lookups, turn, weatherTurns,
                    turnStart, modelCalls, weatherCalls >>

\* Mutant of AppendDirect: the answer is stored over the last message.
AppendDirectOverwrites ==
    /\ pc = "AppendDirect"
    /\ messages' = [messages EXCEPT ![Len(messages)] =
                        AssistantMessage(assistant_message[1].content)]
    /\ pc' = "AwaitingInput"
    /\ UNCHANGED << line, user_input, request, inflight, assistant_message,
                    data, weather_data, second_response, console, error,
                    inputs, lookups, turn, weatherTurns, turnStart,
                    modelCalls, weatherCalls >>

\* main.py:144
AppendDirect ==
    /\ pc = "AppendDirect"
    /\ messages' = Append(messages, AssistantMessage(assistant_message[1].content))
    /\ pc' = "AwaitingInput"
    /\ UNCHANGED << line, user_input, request, inflight, assistant_message,
                    data, weather_data, second_response, console, error,
                    inputs, lookups, turn, weatherTurns, turnStart,
                    modelCalls, weatherCalls >>

Next ==
    \/ \E l \in Lines : ReadInput(l)
    \/ SendModelCall1
    \/ \E resp \in ModelResponses(Call1Request(<<>>)) : ReceiveModel1(resp)
    \/ FailModel1
    \/ DirectAnswer
    \/ WeatherDispatch
    \/ \E body \in WeatherBodies : ReceiveWeather(body)
    \/ FailWeather
    \/ SendModelCall2
    \/ \E resp \in ModelResponses(Call2Request(<<>>)) : ReceiveModel2(resp)
    \/ FailModel2
    \/ PrintWeather
    \/ AppendWeather
    \/ PrintDirect
    \/ AppendDirect

Spec == Init /\ [][Next]_vars

\* Every step but the reading of a line: the steps of a turn under way.
Progress ==
    \/ SendModelCall1
    \/ \E resp \in ModelResponses(Call1Request(<<>>)) : ReceiveModel1(resp)
    \/ FailModel1
    \/ DirectAnswer
    \/ WeatherDispatch
    \/ \E body \in WeatherBodies : ReceiveWeather(body)
    \/ FailWeather
    \/ SendModelCall2
    \/ \E resp \in ModelResponses(Call2Request(<<>>)) : ReceiveModel2(resp)
    \/ FailModel2
    \/ PrintWeather
    \/ AppendWeather
    \/ PrintDirect
    \/ AppendDirect

\* asyncio.run (main.py:147) runs the coroutine on whenever it can go on,
\* and every request is answered or fails; the user may stop typing.
LiveSpec == Spec /\ WF_vars(Progress)

\* ----------------------------------------------------------------- claims

AwaitStates == {"AwaitModel1", "AwaitWeather", "AwaitModel2"}

InFlight == inflight.model + inflight.weather

IsPrefix(a, b) == Len(a) <= Len(b) /\ SubSeq(b, 1, Len(a)) = a

\* The contents of the messages of one role, in transcript order.
RECURSIVE ContentsFrom(_, _)
ContentsFrom(i, role) ==
    IF i > Len(messages) THEN <<>>
    ELSE IF messages[i].role = role
    THEN <<messages[i].content>> \o ContentsFrom(i + 1, role)
    ELSE ContentsFrom(i + 1, role)

\* The bot's replies on the console, without the "Chat Bot: " prefix.
Replies ==
    LET bot == SelectSeq(Tail(console), LAMBDA ln : ln # Goodbye)
    IN  [i \in 1..Len(bot) |-> Tail(bot[i])]

\* C1: when a turn whose first response was a function invocation request
\* has completed, what it appended is exactly a user message, a function
\* message named fetch_weather_from_api and an assistant message, in that
\* order, and it made exactly two model calls: the weather request went out
\* after the first and before anything else was appended, the second went
\* out with the function message as the transcript's last message.
C1_WeatherTurnShape ==
    /\ pc = "AwaitWeather" =>
          /\ modelCalls = 1
          /\ weatherCalls = 1
          /\ Len(messages) = turnStart + 1
    /\ pc = "AwaitModel2" =>
          /\ modelCalls = 2
          /\ Len(messages) = turnStart + 2
          /\ request[1].messages = messages
          /\ messages[Len(messages)].role = "function"
    /\ (/\ pc = "AwaitingInput"
        /\ turn > 0
        /\ assistant_message[1].function_call # <<>>) =>
          /\ modelCalls = 2
          /\ weatherCalls = 1
          /\ Len(messages) = turnStart + 3
          /\ messages[turnStart + 1].role = "user"
          /\ messages[turnStart + 1].content = user_input
          /\ messages[turnStart + 2].role = "function"
          /\ messages[turnStart + 2].name = "fetch_weather_from_api"
          /\ messages[turnStart + 3].role = "assistant"
          /\ messages[turnStart + 3].content = second_response[1].content

C1_Witness ==
    /\ pc = "AwaitingInput"
    /\ turn = 2
    /\ assistant_message[1].function_call # <<>>
    /\ Len(messages) = turnStart + 3
    /\ modelCalls = 2

\* C2: after N completed turns that were all answered directly the
\* transcript holds 1 + 2N messages: the system message, then per turn its
\* user message and its assistant message, in the order of the turns.
C2_DirectTranscript ==
    (pc = "AwaitingInput" /\ weatherTurns = 0) =>
        /\ Len(messages) = 1 + 2 * turn
        /\ messages[1].role = "system"
        /\ \A i \in 1..turn :
              /\ messages[2 * i].role = "user"
              /\ messages[2 * i].content = inputs[i]
              /\ messages[2 * i + 1].role = "assistant"
              /\ messages[2 * i + 1].content = Replies[i]

C2_Witness ==
    /\ pc = "AwaitingInput"
    /\ weatherTurns = 0
    /\ turn = 2
    /\ Len(messages) = 5
    /\ messages[2].content # messages[4].content
    /\ messages[3].content # messages[5].content

\* The four letters of quit, each in either case.
QuitCasings ==
    { <<q, u, i, t>> : q \in {"q", "Q"}, u \in {"u", "U"},
                       i \in {"i", "I"}, t \in {"t", "T"} }

Quiet ==
    /\ messages' = messages
    /\ request' = request
    /\ inflight' = inflight
    /\ modelCalls' = modelCalls
    /\ weatherCalls' = weatherCalls

\* C3: a line that is quit in any letter casing, read at the prompt, moves
\* the session to Exited with the transcript unchanged and no call sent,
\* and nothing happens after Exited.
C3_QuitExits ==
    [][ /\ (pc = "AwaitingInput" /\ line' \in QuitCasings) =>
              (pc' = "Exited" /\ Quiet)
        /\ pc = "Exited" => (pc' = "Exited" /\ Quiet /\ console' = console)
      ]_vars

C3_Witness ==
    /\ pc = "Exited"
    /\ line = <<"Q", "U", "I", "T">>
    /\ turn = 1
    /\ Len(messages) = 3

\* C4: every step leaves the previous transcript as a prefix of the new
\* one; and whenever a model call is in flight, the transcript it carries
\* is the whole transcript, and that holds every user input read so far,
\* every weather result returned so far and every reply printed so far,
\* each once and in order.
C4_AppendOnly ==
    /\ [][IsPrefix(messages, messages')]_vars
    /\ [](pc \in {"AwaitModel1", "AwaitModel2"} =>
            /\ request[1].messages = messages
            /\ ContentsFrom(1, "user") = inputs
            /\ ContentsFrom(1, "function")
                  = [i \in 1..Len(lookups) |-> Str(lookups[i])]
            /\ ContentsFrom(1, "assistant") = Replies)

C4_Witness ==
    /\ pc = "AwaitModel2"
    /\ turn = 2
    /\ Len(lookups) = 2
    /\ Len(Replies) = 1
    /\ Len(messages) = 6

\* C5: a step in which a call fails ends the session: the position is
\* Crashed, nothing is appended or printed and no request is sent in that
\* step, and nothing at all happens afterwards.
C5_FailureTerminates ==
    [][ /\ error' # "none" =>
              /\ pc' = "Crashed"
              /\ messages' = messages
              /\ console' = console
              /\ request' = request
              /\ modelCalls' = modelCalls
              /\ weatherCalls' = weatherCalls
              /\ inflight' = [model |-> 0, weather |-> 0]
        /\ pc = "Crashed" => FALSE
      ]_vars

C5_Witness ==
    /\ pc = "Crashed"
    /\ error = "APIError"
    /\ modelCalls = 2
    /\ turn = 2

LacksData(body) ==
    \/ "weather" \notin DOMAIN body
    \/ "main" \notin DOMAIN body
    \/ "temp" \notin DOMAIN body.main

\* C6: when the provider's answer lacks the weather list or main.temp, the
\* lookup raises KeyError, weather_data gets no value, no function message
\* is appended and the session ends.
C6_NoPartialResult ==
    [][ (/\ pc = "AwaitWeather"
         /\ error' # "ClientError"
         /\ data' # <<>>
         /\ LacksData(data'[1])) =>
            /\ error' = "KeyError"
            /\ pc' = "Crashed"
            /\ weather_data' = weather_data
            /\ lookups' = lookups
            /\ messages' = messages
      ]_vars

C6_Witness ==
    /\ pc = "Crashed"
    /\ error = "KeyError"
    /\ data # <<>>
    /\ "main" \in DOMAIN data[1]
    /\ "temp" \in DOMAIN data[1].main
    /\ "weather" \notin DOMAIN data[1]
    /\ messages[Len(messages)].role = "user"

\* C7: at most one network call is in flight, and none is while the loop is
\* at a position where it sends, appends, prints or reads.
C7_OneCallInFlight ==
    /\ InFlight <= 1
    /\ pc \notin AwaitStates => InFlight = 0
    /\ pc \in {"AwaitModel1", "AwaitModel2"} =>
          inflight = [model |-> 1, weather |-> 0]
    /\ pc = "AwaitWeather" => inflight = [model |-> 0, weather |-> 1]

C7_Witness ==
    /\ pc = "AwaitWeather"
    /\ inflight.weather = 1
    /\ turn = 2

\* C8: whenever the payload of a function invocation request holds the key
\* location, the weather lookup is made for its value, whatever other keys
\* the payload holds.
C8_OnlyLocationUsed ==
    [][ (/\ pc = "Branch"
         /\ assistant_message[1].function_call # <<>>
         /\ Eval(assistant_message[1].function_call[1].arguments).raises
               = "none") =>
            \A kv \in Eval(assistant_message[1].function_call[1].arguments).value[1] :
                kv[1] = "location" =>
                    /\ pc' = "AwaitWeather"
                    /\ request' = <<[kind |-> "weather", location |-> kv[2]]>>
      ]_vars

\* C9: the first model call of a turn declares fetch_weather_from_api with
\* the one required string parameter location and automatic selection; the
\* second is sent only after a weather request, declares no function and is
\* answered with text; a turn makes at most two model calls and one weather
\* request.
C9_FunctionsOnFirstCallOnly ==
    /\ modelCalls <= 2
    /\ weatherCalls <= 1
    /\ pc = "AwaitModel1" =>
          /\ modelCalls = 1
          /\ weatherCalls = 0
          /\ request[1].kind = "model"
          /\ request[1].function_call = "auto"
          /\ Cardinality(request[1].functions) = 1
          /\ \A f \in request[1].functions :
                /\ f.name = "fetch_weather_from_api"
                /\ f.properties = {<<"location", "string">>}
                /\ f.required = {"location"}
    /\ pc = "AwaitModel2" =>
          /\ modelCalls = 2
          /\ weatherCalls = 1
          /\ request[1].kind = "model"
          /\ request[1].functions = {}
    /\ pc \in {"PrintWeather", "AppendWeather"} =>
          /\ second_response[1].function_call = <<>>
          /\ second_response[1].content # <<>>

C9_Witness ==
    /\ pc = "PrintWeather"
    /\ turn = 2
    /\ modelCalls = 2
    /\ weatherTurns = 2

\* C10: the temperature of a result is the provider's Kelvin value minus
\* 273.15 rounded to one decimal: it is within half a tenth of it; 300.15
\* gives 27.0, 273.15 gives 0.0, 20.04 Celsius gives 20.0 and 20.06 gives
\* 20.1.
C10_CelsiusRounded ==
    pc = "ModelCall2" =>
        LET k == data[1].main.temp
            c == k - 27315
            t == weather_data[1].temperature
        IN  /\ 10 * t - c \in -5..5
            /\ k = 30015 => t = 270
            /\ k = 27315 => t = 0
            /\ c = 2004 => t = 200
            /\ c = 2006 => t = 201
            /\ c = -25 => t \in {-3, -2}

C10_Witness ==
    /\ pc = "ModelCall2"
    /\ data[1].main.temp = 29321
    /\ weather_data[1].temperature = 201

Ended == {"Exited", "Crashed"}

\* C11: the session ends only by a quit line read at the prompt (Exited) or
\* by an exception (Crashed, with the error set); a turn that has started
\* and whose calls are answered comes back to AwaitingInput with its reply
\* printed, unless an exception ends the session.
C11_EndsOnlyByQuitOrError ==
    /\ [][ (pc \notin Ended /\ pc' \in Ended) =>
              \/ /\ pc = "AwaitingInput"
                 /\ pc' = "Exited"
                 /\ error' = "none"
                 /\ user_input' \in QuitCasings
                 /\ console' = Append(console, <<"Chat Bot: Goodbye!">>)
              \/ /\ pc' = "Crashed"
                 /\ error' # "none"
         ]_vars
    /\ [](pc = "AwaitingInput" => Len(Replies) = turn)
    /\ (pc = "ModelCall1") ~> (pc = "AwaitingInput" \/ pc = "Crashed")

C11_Witness ==
    /\ pc = "AwaitingInput"
    /\ turn = 2
    /\ Len(Replies) = 2
    /\ weatherTurns = 1
    /\ error = "none"

\* The user message whose content is the given text is the last message.
LastIsUser(msgs, text) ==
    /\ msgs # <<>>
    /\ msgs[Len(msgs)].role = "user"
    /\ msgs[Len(msgs)].content = text

\* C12 as claimed: every line read at the prompt that is not quit in some
\* letter casing is appended as a user message and the loop goes on to the
\* first model call; a line that is quit between blanks is such a line.
C12_EveryOtherLineAppended ==
    [][ (pc = "AwaitingInput" /\ line' \notin QuitCasings) =>
            /\ pc' = "ModelCall1"
            /\ Len(messages') = Len(messages) + 1
            /\ messages'[Len(messages')].role = "user"
      ]_vars

\* What strip() leaves of the lines the user may type, line by line.
Stripped(l) ==
    CASE l = <<" ", "q", "u", "i", "t", " ">> -> <<"q", "u", "i", "t">>
      [] l = <<"q", "U", "i", "T", "\t">> -> <<"q", "U", "i", "T">>
      [] l = <<" ">> -> <<>>
      [] l = <<"H", "i", " ">> -> <<"H", "i">>
      [] OTHER -> l

\* C12 amended: every line that, with the surrounding whitespace stripped,
\* is not quit in some letter casing is appended, stripped, as a user
\* message, and exactly one first model call follows, carrying the whole
\* transcript with that message last; the empty line is such a line, a line
\* that is quit between blanks is not: it ends the session, nothing appended.
C12_StrippedLineAppended ==
    /\ [][ (pc = "AwaitingInput" /\ Stripped(line') \notin QuitCasings) =>
              /\ pc' = "ModelCall1"
              /\ Len(messages') = Len(messages) + 1
              /\ IsPrefix(messages, messages')
              /\ LastIsUser(messages', Stripped(line'))
              /\ modelCalls' = 0
         ]_vars
    /\ [][ (pc = "AwaitingInput" /\ Stripped(line') \in QuitCasings) =>
              (pc' = "Exited" /\ messages' = messages)
         ]_vars
    /\ [][ pc = "ModelCall1" =>
              /\ pc' = "AwaitModel1"
              /\ modelCalls' = 1
              /\ request'[1].kind = "model"
              /\ request'[1].messages = messages
              /\ messages' = messages
         ]_vars
    /\ [](pc = "AwaitModel1" =>
            /\ modelCalls = 1
            /\ LastIsUser(request[1].messages, Stripped(line)))

C12_Witness ==
    /\ pc = "AwaitModel1"
    /\ line = <<>>
    /\ turn = 2
    /\ LastIsUser(request[1].messages, <<>>)
    /\ Len(messages) >= 4

\* This step prints a bot reply (not the farewell).
ReplyPrinted ==
    /\ Len(console') = Len(console) + 1
    /\ console'[Len(console')] # <<"Chat Bot: Goodbye!">>

LastMessage == messages[Len(messages)]

\* C13 as claimed: whenever a reply is printed, the transcript's last
\* message is already the assistant message with that text.
C13_AppendedBeforePrinted ==
    [][ ReplyPrinted =>
            /\ LastMessage.role = "assistant"
            /\ <<"Chat Bot: ">> \o LastMessage.content
                  = console'[Len(console')]
      ]_vars

\* C13 amended: on both branches the reply is printed first, while the
\* transcript still ends with the turn's user or function message, and the
\* assistant message with the printed text is appended in the next step,
\* before the next line is read: back at the prompt the transcript's last
\* message is the assistant message with the text of the last reply.
C13_PrintedThenAppended ==
    /\ [][ ReplyPrinted =>
              /\ messages' = messages
              /\ pc \in {"PrintDirect", "PrintWeather"}
              /\ pc = "PrintDirect" =>
                    (pc' = "AppendDirect" /\ LastMessage.role = "user")
              /\ pc = "PrintWeather" =>
                    (pc' = "AppendWeather" /\ LastMessage.role = "function")
         ]_vars
    /\ [][ (pc = "AppendDirect" \/ pc = "AppendWeather") =>
              /\ messages' = Append(messages,
                                    [role |-> "assistant",
                                     content |-> Tail(console[Len(console)])])
              /\ console' = console
              /\ pc' = "AwaitingInput"
         ]_vars
    /\ [](pc = "AwaitingInput" /\ turn > 0 =>
            /\ LastMessage.role = "assistant"
            /\ <<"Chat Bot: ">> \o LastMessage.content
                  = console[Len(console)])

C13_Witness ==
    /\ pc = "AppendWeather"
    /\ turn = 2
    /\ LastMessage.role = "function"
    /\ Len(Replies) = 2
    /\ console[Len(console)] = <<"Chat Bot: ", "It is 27.0 C in Berlin.">>

\* The first response of the turn carries a function invocation request.
Requested == assistant_message[1].function_call # <<>>

RequestedArgs == Eval(assistant_message[1].function_call[1].arguments)

\* C14 as claimed, taken for the requests whose payload holds exactly the
\* key location (other payloads are C8's matter): whenever the first
\* response carries such a request, the weather request is sent and a
\* function message named fetch_weather_from_api is appended; without a
\* request no weather request is sent.
C14_RequestAlwaysLooksUp ==
    [][ /\ (/\ pc = "Branch"
            /\ Requested
            /\ RequestedArgs.raises = "none"
            /\ {kv[1] : kv \in RequestedArgs.value[1]} = {"location"}) =>
              (pc' = "AwaitWeather" /\ weatherCalls' = 1)
        /\ (pc = "AwaitWeather") =>
              /\ Len(messages') = Len(messages) + 1
              /\ messages'[Len(messages')].role = "function"
              /\ messages'[Len(messages')].name = "fetch_weather_from_api"
        /\ (pc = "Branch" /\ ~Requested) =>
              (pc' = "PrintDirect" /\ weatherCalls' = 0)
      ]_vars

\* C14 amended: whenever the first response carries a function invocation
\* request, whatever function name it carries, its arguments are evaluated;
\* when they are a payload with exactly the key location the weather request
\* for that location is sent, and when the lookup returns a result a
\* function message named fetch_weather_from_api is appended; when the
\* evaluation, the binding or the lookup raises, the session ends and no
\* function message is appended.  Without a request no weather request is
\* sent in the turn.
C14_RequestLooksUpOrEnds ==
    /\ [][ (pc = "Branch" /\ Requested) =>
              IF /\ RequestedArgs.raises = "none"
                 /\ {kv[1] : kv \in RequestedArgs.value[1]} = {"location"}
              THEN /\ pc' = "AwaitWeather"
                   /\ weatherCalls' = 1
                   /\ request'[1].kind = "weather"
                   /\ <<"location", request'[1].location>>
                         \in RequestedArgs.value[1]
                   /\ messages' = messages
              ELSE /\ pc' = "Crashed"
                   /\ error' \in {"NameError", "SyntaxError", "TypeError"}
                   /\ weatherCalls' = 0
                   /\ request' = request
                   /\ messages' = messages
         ]_vars
    /\ [][ (pc = "AwaitWeather") =>
              \/ /\ pc' = "ModelCall2"
                 /\ error' = "none"
                 /\ Len(messages') = Len(messages) + 1
                 /\ IsPrefix(messages, messages')
                 /\ messages'[Len(messages')].role = "function"
                 /\ messages'[Len(messages')].name = "fetch_weather_from_api"
              \/ /\ pc' = "Crashed"
                 /\ error' # "none"
                 /\ messages' = messages
         ]_vars
    /\ [][ (pc = "Branch" /\ ~Requested) =>
              (pc' = "PrintDirect" /\ weatherCalls' = 0)
         ]_vars
    /\ [](pc \in {"PrintDirect", "AppendDirect"} =>
            /\ weatherCalls = 0
            /\ \A i \in (turnStart + 1)..Len(messages) :
                  messages[i].role # "function")
    /\ [](pc = "AwaitingInput" /\ turn > 0 /\ ~Requested =>
            /\ weatherCalls = 0
            /\ \A i \in (turnStart + 1)..Len(messages) :
                  messages[i].role # "function")

C14_Witness ==
    /\ pc = "ModelCall2"
    /\ assistant_message[1].function_call[1].name = "get_forecast"
    /\ LastMessage.role = "function"
    /\ LastMessage.name = "fetch_weather_from_api"
    /\ weatherCalls = 1

\* C15: when a turn has completed, the console holds one reply per turn
\* after the greeting, and the last reply is the content of the assistant
\* message the turn appended: the first response's text on the direct
\* branch, the second response's text on the weather branch, where the
\* first response's text is neither the reply nor in any message of the
\* turn; no message of the transcript holds a function invocation request.
C15_OneReplyPerTurn ==
    /\ \A i \in 1..Len(messages) :
          /\ DOMAIN messages[i] \subseteq {"role", "content", "name"}
          /\ messages[i].role = "assistant" =>
                DOMAIN messages[i] = {"role", "content"}
    /\ (pc = "AwaitingInput" /\ turn > 0) =>
          /\ Len(console) = 1 + turn
          /\ LastMessage.role = "assistant"
          /\ console[Len(console)] = <<"Chat Bot: ">> \o LastMessage.content
          /\ Requested =>
                /\ Len(messages) = turnStart + 3
                /\ LastMessage.content = second_response[1].content
                /\ assistant_message[1].content # <<>> =>
                      /\ LastMessage.content # assistant_message[1].content
                      /\ \A i \in (turnStart + 1)..Len(messages) :
                            messages[i].content
                               # assistant_message[1].content
          /\ ~Requested =>
                /\ Len(messages) = turnStart + 2
                /\ LastMessage.content = assistant_message[1].content

C15_Witness ==
    /\ pc = "AwaitingInput"
    /\ turn = 1
    /\ Requested
    /\ assistant_message[1].content = <<"Let me check.">>
    /\ Len(messages) = 4
    /\ console[Len(console)] = <<"Chat Bot: ", "It is 27.0 C in Berlin.">>

\* C16: the transcript is never empty, its first message is the system
\* prompt and the only message of role system, every later message has role
\* user, function or assistant; the transcript a model call carries starts
\* with the system prompt and ends with a user message on the first call of
\* a turn, with a function message on the second.
C16_SystemPromptFirst ==
    /\ Len(messages) >= 1
    /\ messages[1].role = "system"
    /\ messages[1].content = <<"You are a helpful weather assistant.">>
    /\ \A i \in 2..Len(messages) :
          messages[i].role \in {"user", "function", "assistant"}
    /\ pc = "AwaitModel1" =>
          /\ request[1].messages[1].role = "system"
          /\ request[1].messages[1] = messages[1]
          /\ Len(request[1].messages) >= 2
          /\ request[1].messages[Len(request[1].messages)].role = "user"
    /\ pc = "AwaitModel2" =>
          /\ request[1].messages[1].role = "system"
          /\ request[1].messages[1] = messages[1]
          /\ Len(request[1].messages) >= 3
          /\ request[1].messages[Len(request[1].messages)].role = "function"

C16_Witness ==
    /\ pc = "AwaitModel1"
    /\ turn = 2
    /\ weatherTurns = 1
    /\ Len(request[1].messages) = 5
    /\ request[1].messages[3].role = "function"

====
